---- MODULE Spec2Model ----
(***************************************************************************)
(* A model of the ray tracer of nyoxon/raytracing: the camera              *)
(* (engine/camera.rs, duplicated as RayTracing in main.rs), the two        *)
(* primitives and their intersection tests (engine/objects/traits.rs),     *)
(* the recursive tracer and the PPM render driver.                         *)
(*                                                                         *)
(* Numbers.  An f32 of the program is modelled bit for bit: the integer   *)
(* x stands for the IEEE 754 binary32 value whose biased exponent and      *)
(* fraction are the 31 bits of Mag(x) and whose sign bit is set when       *)
(* x < 0 (so that -0.0 is -1 and the integers are in the order of the      *)
(* numbers).  The operations are the IEEE 754 ones: round to nearest,      *)
(* ties to even, subnormals, signed zeros and infinities; every NaN is     *)
(* the one value NaN.                                                      *)
(***************************************************************************)
EXTENDS Integers, Sequences, FiniteSets, TLC

\* 2^0 .. 2^30
Powers ==
    <<1, 2, 4, 8, 16, 32, 64, 128, 256, 512, 1024, 2048, 4096, 8192, 16384,
      32768, 65536, 131072, 262144, 524288, 1048576, 2097152, 4194304,
      8388608, 16777216, 33554432, 67108864, 134217728, 268435456,
      536870912, 1073741824>>

TwoTo(k) == Powers[k + 1]

\* the sign bit of x
Neg(x) == x < 0

\* the 31 bits below the sign bit: biased exponent and fraction
Mag(x) == IF x < 0 THEN 0 - (x + 1) ELSE x

\* the f32 of sign bit s and low bits m
Bits(s, m) == IF s THEN 0 - m - 1 ELSE m

\* the low bits of the infinities
INF == 255 * TwoTo(23)

\* the NaN every operation of the model produces (the program never reads
\* the sign or the payload of a NaN)
NaN == INF + TwoTo(22)

IsNaN(x) == x > INF \/ x < 0 - INF - 1

IsInf(x) == x = INF \/ x = 0 - INF - 1

IsZero(x) == x = 0 \/ x = 0 - 1

\* floor(log2(i)) of a byte (0 for i = 0)
LogOfByte == [i \in 0..255 |-> Cardinality({k \in 1..7 : i >= TwoTo(k)})]

\* floor(log2(n)), 1 <= n < 2^31
FloorLog2(n) ==
    IF n >= TwoTo(24) THEN 24 + LogOfByte[n \div TwoTo(24)]
    ELSE IF n >= TwoTo(16) THEN 16 + LogOfByte[n \div TwoTo(16)]
    ELSE IF n >= TwoTo(8) THEN 8 + LogOfByte[n \div TwoTo(8)]
    ELSE LogOfByte[n]

\* sig >> k rounded to the nearest, ties to even; `sticky` says that bits
\* below those of sig were not zero
RoundShift(sig, k, sticky) ==
    IF k <= 0 THEN sig * TwoTo(0 - k)
    ELSE IF k >= 32 THEN 0
    ELSE IF k = 31
         THEN IF sig > TwoTo(30) \/ (sig = TwoTo(30) /\ sticky) THEN 1 ELSE 0
    ELSE IF sig % TwoTo(k) > TwoTo(k - 1)
            \/ (sig % TwoTo(k) = TwoTo(k - 1)
                   /\ (sticky \/ (sig \div TwoTo(k)) % 2 = 1))
         THEN sig \div TwoTo(k) + 1
         ELSE sig \div TwoTo(k)

\* the f32 of exponent e (the weight of the last bit of q is 2^e), e >= -149
Pack(s, q, e) ==
    IF e > 104 \/ (e + 149) * TwoTo(23) + q >= INF THEN Bits(s, INF)
    ELSE Bits(s, (e + 149) * TwoTo(23) + q)

\* the shift that leaves 24 bits of a number of log2 `l` and exponent exp,
\* fewer in the subnormal range
RoundAt(s, sig, exp, sticky, k) ==
    Pack(s,
         RoundShift(sig, IF exp + k < 0 - 149 THEN 0 - 149 - exp ELSE k, sticky),
         IF exp + k < 0 - 149 THEN 0 - 149 ELSE exp + k)

\* the f32 nearest to (sig + fraction) * 2^exp, 0 <= sig < 2^31: IEEE 754
\* round to nearest, ties to even, with gradual underflow and overflow to
\* infinity
RoundPack(s, sig, exp, sticky) ==
    IF sig = 0 THEN Bits(s, 0)
    ELSE RoundAt(s, sig, exp, sticky, FloorLog2(sig) - 23)

\* a finite f32 of low bits m is Sig(m) * 2^Exp(m), 2^23 <= Sig(m) < 2^24
\* for m # 0 (a subnormal is shifted up)
RawSig(m) == IF m < TwoTo(23) THEN m ELSE TwoTo(23) + (m % TwoTo(23))

RawExp(m) == IF m < TwoTo(23) THEN 0 - 149 ELSE m \div TwoTo(23) - 150

Sig(m) == IF m >= TwoTo(23) THEN RawSig(m) ELSE m * TwoTo(23 - FloorLog2(m))

Exp(m) == IF m >= TwoTo(23) THEN RawExp(m) ELSE FloorLog2(m) - 172

\* n as f32
F(n) == RoundPack(n < 0, IF n < 0 THEN 0 - n ELSE n, 0, FALSE)

ONE == F(1)

FNeg(x) == IF IsNaN(x) THEN NaN ELSE Bits(~Neg(x), Mag(x))

\* the smaller operand's significand aligned d bits below the larger one's,
\* which has 6 more bits: <<bits, sticky>>
Aligned(ss, d) ==
    IF d <= 6 THEN <<ss * TwoTo(6 - d), FALSE>>
    ELSE IF d >= 31 THEN <<0, TRUE>>
    ELSE <<ss \div TwoTo(d - 6), ss % TwoTo(d - 6) # 0>>

\* the sum (`same`: the operands have the same sign) or the difference of
\* bs * 2^be and the aligned al
AddSig(s, bs, be, al, same) ==
    RoundPack(s,
              IF same THEN bs * 64 + al[1]
              ELSE bs * 64 - al[1] - (IF al[2] THEN 1 ELSE 0),
              be - 6, al[2])

\* that of bs * 2^be and ss * 2^se, be >= se
AddAligned(s, bs, be, ss, se, same) ==
    AddSig(s, bs, be, Aligned(ss, be - se), same)

\* big + small, |big| >= |small|, both finite and not zero
AddOrdered(big, small) ==
    IF Neg(big) # Neg(small) /\ Mag(big) = Mag(small) THEN 0
    ELSE AddAligned(Neg(big), Sig(Mag(big)), Exp(Mag(big)),
                    Sig(Mag(small)), Exp(Mag(small)), Neg(big) = Neg(small))

\* x + y
Add[x \in Int, y \in Int] ==
    IF IsNaN(x) \/ IsNaN(y) THEN NaN
    ELSE IF IsInf(x) THEN (IF IsInf(y) /\ Neg(x) # Neg(y) THEN NaN ELSE x)
    ELSE IF IsInf(y) THEN y
    ELSE IF IsZero(x) THEN (IF IsZero(y) THEN Bits(Neg(x) /\ Neg(y), 0) ELSE y)
    ELSE IF IsZero(y) THEN x
    ELSE AddOrdered(IF Mag(x) >= Mag(y) THEN x ELSE y,
                    IF Mag(x) >= Mag(y) THEN y ELSE x)

FAdd(x, y) == Add[x, y]

FSub(x, y) == Add[x, FNeg(y)]

\* the 48-bit product hi * 2^24 + lo, rounded
MulRound(s, hi, lo, e) ==
    RoundPack(s, hi * 64 + lo \div TwoTo(18), e + 18, lo % TwoTo(18) # 0)

MulWords(s, hi, lo25, e) ==
    MulRound(s, hi + lo25 \div TwoTo(24), lo25 % TwoTo(24), e)

MulParts(s, hh, mid, ll, e) ==
    MulWords(s, hh + mid \div 4096, (mid % 4096) * 4096 + ll, e)

\* a * b * 2^e from the 12-bit halves of a and b
MulSig(s, a, b, e) ==
    MulParts(s, (a \div 4096) * (b \div 4096),
             (a \div 4096) * (b % 4096) + (a % 4096) * (b \div 4096),
             (a % 4096) * (b % 4096), e)

\* x * y
Mul[x \in Int, y \in Int] ==
    IF IsNaN(x) \/ IsNaN(y) THEN NaN
    ELSE IF (IsInf(x) /\ IsZero(y)) \/ (IsZero(x) /\ IsInf(y)) THEN NaN
    ELSE IF IsInf(x) \/ IsInf(y) THEN Bits(Neg(x) # Neg(y), INF)
    ELSE IF IsZero(x) \/ IsZero(y) THEN Bits(Neg(x) # Neg(y), 0)
    ELSE MulSig(Neg(x) # Neg(y), Sig(Mag(x)), Sig(Mag(y)),
                Exp(Mag(x)) + Exp(Mag(y)))

FMul(x, y) == Mul[x, y]

\* one digit of the long division: from <<quotient, remainder>> to those
\* with a digit of weight w more, y the divisor
DivStep(qr, y, w) == <<qr[1] * w + (qr[2] * w) \div y, (qr[2] * w) % y>>

DivRound(s, qr, e) == RoundPack(s, qr[1], e, qr[2] # 0)

\* a / b * 2^e: the integer part, four digits of 6 bits and one of 3, rounded
DivSig(s, a, b, e) ==
    DivRound(s,
             DivStep(DivStep(DivStep(DivStep(DivStep(<<a \div b, a % b>>,
                                                     b, 64), b, 64), b, 64),
                             b, 64), b, 8),
             e - 27)

\* x / y
Div[x \in Int, y \in Int] ==
    IF IsNaN(x) \/ IsNaN(y) THEN NaN
    ELSE IF (IsInf(x) /\ IsInf(y)) \/ (IsZero(x) /\ IsZero(y)) THEN NaN
    ELSE IF IsInf(x) \/ IsZero(y) THEN Bits(Neg(x) # Neg(y), INF)
    ELSE IF IsInf(y) \/ IsZero(x) THEN Bits(Neg(x) # Neg(y), 0)
    ELSE DivSig(Neg(x) # Neg(y), Sig(Mag(x)), Sig(Mag(y)),
                Exp(Mag(x)) - Exp(Mag(y)))

FDiv(x, y) == Div[x, y]

\* n / d as an f32 literal: the f32 nearest to the decimal
Lit(n, d) == FDiv(F(n), F(d))

\* <<root, remainder>> of m, 2^12 <= m < 2^14
Sqrt7(m) ==
    CHOOSE sr \in {<<s, m - s * s>> : s \in 64..127} :
        sr[2] >= 0 /\ sr[2] <= 2 * sr[1]

SqrtAdjust(s, r) == IF r < 0 THEN <<s - 1, r + 2 * s - 1>> ELSE <<s, r>>

SqrtDigit(sr, b, a0, q, u) == SqrtAdjust(sr[1] * b + q, u * b + a0 - q * q)

\* the square root by halves: sr is <<root, remainder>> of h; the result is
\* that of h * b^2 + a1 * b + a0, the root having one digit of base b more
SqrtStep(sr, b, a1, a0) ==
    SqrtDigit(sr, b, a0, (sr[2] * b + a1) \div (2 * sr[1]),
              (sr[2] * b + a1) % (2 * sr[1]))

\* <<root, remainder>> of n, 2^26 <= n < 2^28
Sqrt14(n) ==
    SqrtStep(Sqrt7(n \div TwoTo(14)), 128, (n \div 128) % 128, n % 128)

\* <<root, remainder>> of n * 2^28
Sqrt28(n) == SqrtStep(Sqrt14(n), TwoTo(14), 0, 0)

SqrtRound(sr, e) == RoundPack(FALSE, sr[1], e, sr[2] # 0)

\* sqrt(sig * 2^exp), 2^23 <= sig < 2^24, the exponent made even first
SqrtSig(sig, exp) ==
    IF exp % 2 = 0 THEN SqrtRound(Sqrt28(sig * 16), (exp - 32) \div 2)
    ELSE SqrtRound(Sqrt28(sig * 8), (exp - 31) \div 2)

\* f32::sqrt
Sqrt[x \in Int] ==
    IF IsNaN(x) THEN NaN
    ELSE IF IsZero(x) THEN x
    ELSE IF Neg(x) THEN NaN
    ELSE IF IsInf(x) THEN x
    ELSE SqrtSig(Sig(Mag(x)), Exp(Mag(x)))

FSqrt(x) == Sqrt[x]

\* the place of x in the order of the numbers: -0.0 and 0.0 have the same
Ord(x) == IF x < 0 THEN x + 1 ELSE x

FLt(x, y) == ~IsNaN(x) /\ ~IsNaN(y) /\ Ord(x) < Ord(y)
FGt(x, y) == ~IsNaN(x) /\ ~IsNaN(y) /\ Ord(x) > Ord(y)
FGe(x, y) == ~IsNaN(x) /\ ~IsNaN(y) /\ Ord(x) >= Ord(y)
FEq(x, y) == ~IsNaN(x) /\ ~IsNaN(y) /\ Ord(x) = Ord(y)

\* f32::abs
FAbs(x) == IF IsNaN(x) THEN NaN ELSE Mag(x)

\* what f32::max may return for two zeros of opposite signs: either of them
\* ((-0.0).max(0.0) is -0.0 in the debug build, +0.0 in the release build)
MaxZeros == {0, 0 - 1}

\* f32::max: a NaN operand is ignored; `zero` is the member of MaxZeros that
\* the call returns for two zeros of opposite signs
FMax(x, y, zero) ==
    IF IsNaN(x) THEN y
    ELSE IF IsNaN(y) THEN x
    ELSE IF IsZero(x) /\ IsZero(y) /\ x # y THEN zero
    ELSE IF FLt(x, y) THEN y ELSE x

\* f32::clamp: a NaN stays a NaN
FClamp(x, lo, hi) ==
    IF IsNaN(x) THEN NaN
    ELSE IF FLt(x, lo) THEN lo ELSE IF FGt(x, hi) THEN hi ELSE x

\* `x as u8`: truncation toward zero, saturating at 0 and 255, NaN to 0
AsU8(x) ==
    IF IsNaN(x) \/ Neg(x) \/ Mag(x) < ONE THEN 0
    ELSE IF Mag(x) >= F(255) THEN 255
    ELSE RawSig(Mag(x)) \div TwoTo(0 - RawExp(Mag(x)))

(***************************************************************************)
(* nalgebra::Vector3<f32>: a triple of f32.                                *)
(***************************************************************************)
Vec(x, y, z) == <<x, y, z>>

VAdd(u, v) == <<Add[u[1], v[1]], Add[u[2], v[2]], Add[u[3], v[3]]>>

VSub(u, v) == <<FSub(u[1], v[1]), FSub(u[2], v[2]), FSub(u[3], v[3])>>

VScale(v, s) == <<Mul[v[1], s], Mul[v[2], s], Mul[v[3], s]>>

Dot(u, v) == Add[Add[Mul[u[1], v[1]], Mul[u[2], v[2]]], Mul[u[3], v[3]]]

Cross(u, v) ==
    <<FSub(FMul(u[2], v[3]), FMul(u[3], v[2])),
      FSub(FMul(u[3], v[1]), FMul(u[1], v[3])),
      FSub(FMul(u[1], v[2]), FMul(u[2], v[1]))>>

Norm(v) == Sqrt[Dot(v, v)]

VDiv(v, n) == <<Div[v[1], n], Div[v[2], n], Div[v[3], n]>>

\* Vector3::normalize: v / v.norm(), with no test of the norm
Normalize(v) == VDiv(v, Norm(v))

VIsNaN(v) == IsNaN(v[1]) \/ IsNaN(v[2]) \/ IsNaN(v[3])

(***************************************************************************)
(* engine/objects/types.rs: Ray, Intersection, LightSource, Sphere, Plane. *)
(* Option<T>: None is the empty sequence, Some(v) the sequence <<v>>.      *)
(***************************************************************************)
None == <<>>

Some(v) == <<v>>

Ray(o, d) == [origin |-> o, direction |-> d]

Sphere(c, r, col, refl) ==
    [kind |-> "Sphere", center |-> c, radius |-> r, color |-> col,
     reflectivity |-> refl]

Plane(p, n, col, refl) ==
    [kind |-> "Plane", point |-> p, normal |-> n, color |-> col,
     reflectivity |-> refl]

Intersection(p, n, t, obj) ==
    [point |-> p, normal |-> n, distance |-> t, object |-> obj]

(***************************************************************************)
(* engine/objects/traits.rs: the Intersectable implementations.            *)
(***************************************************************************)
\* a, b, c of the sphere's quadratic in t, oc being ray.origin - self.center
Sphere_abc(self, ray, oc) ==
    <<Dot(ray.direction, ray.direction),
      FMul(F(2), Dot(oc, ray.direction)),
      FSub(Dot(oc, oc), FMul(self.radius, self.radius))>>

Discriminant(a, b, c) == FSub(FMul(b, b), FMul(FMul(F(4), a), c))

\* <<t1, t2>>
Sphere_t1t2(a, b, sqrt_d) ==
    <<FDiv(FSub(FNeg(b), sqrt_d), FMul(F(2), a)),
      FDiv(FAdd(FNeg(b), sqrt_d), FMul(F(2), a))>>

Sphere_solve(abc, discriminant) ==
    IF FLt(discriminant, 0) THEN None
    ELSE Some(Sphere_t1t2(abc[1], abc[2], FSqrt(discriminant)))

Sphere_quadratic(abc) ==
    Sphere_solve(abc, Discriminant(abc[1], abc[2], abc[3]))

\* the two roots of the sphere's quadratic, Some(<<t1, t2>>), or None when
\* the discriminant is negative
Sphere_roots(self, ray) ==
    Sphere_quadratic(Sphere_abc(self, ray, VSub(ray.origin, self.center)))

\* the intersection at `point`, the point of the ray at distance t
Sphere_at(self, t, point) ==
    Some(Intersection(point, Normalize(VSub(point, self.center)), t, self))

\* the choice of t among the roots
Sphere_t(roots) ==
    IF roots = None THEN None
    ELSE IF FGe(roots[1][1], 0) THEN Some(roots[1][1])
    ELSE IF FGe(roots[1][2], 0) THEN Some(roots[1][2])
    ELSE None

Sphere_hit(self, ray, t) ==
    IF t = None THEN None
    ELSE Sphere_at(self, t[1], VAdd(ray.origin, VScale(ray.direction, t[1])))

Sphere_intersect(self, ray) ==
    Sphere_hit(self, ray, Sphere_t(Sphere_roots(self, ray)))

Plane_denom(self, ray) == Dot(ray.direction, self.normal)

\* the parametric distance (P0 - O).N / denom of the plane's test
Plane_t(self, ray) ==
    FDiv(Dot(VSub(self.point, ray.origin), self.normal), Plane_denom(self, ray))

Plane_hit(self, ray, t) ==
    IF FLt(t, 0) THEN None
    ELSE Some(Intersection(VAdd(ray.origin, VScale(ray.direction, t)),
                           self.normal, t, self))

Plane_intersect(self, ray) ==
    IF FLt(FAbs(Plane_denom(self, ray)), Lit(1, 1000000)) THEN None
    ELSE Plane_hit(self, ray, Plane_t(self, ray))

\* dynamic dispatch of Intersectable::intersect
intersect(obj, ray) ==
    IF obj.kind = "Sphere" THEN Sphere_intersect(obj, ray)
    ELSE Plane_intersect(obj, ray)

get_color(obj) == obj.color

reflectivity(obj) == obj.reflectivity

(***************************************************************************)
(* engine/camera.rs: Camera (main.rs: RayTracing, the same code).          *)
(***************************************************************************)
\* f32::MAX, the start value of the closest-hit search: 0x7F7FFFFF
F32_MAX == 2139095039

\* the literal 1e-3 of the shadow and reflection rays
EPSILON == Lit(1, 1000)

\* the light constructed inside trace_ray
light ==
    [origin |-> Vec(F(-5), F(5), F(5)),
     intensity |-> <<F(255), F(255), F(255)>>,
     color |-> <<F(255), F(0), F(100)>>]

reflect(incident, normal) ==
    VSub(incident, VScale(normal, FMul(F(2), Dot(incident, normal))))

\* `hit.distance < min_dist`: the test that keeps a hit as the closest
Closer(hit, min_dist) == FLt(hit.distance, min_dist)

\* the closest-hit loop from object i on: [closest, min_dist, index],
\* index being the position in the list of the object kept (0: none)
ClosestStep(acc, h, i) ==
    IF h # None /\ Closer(h[1], acc.min_dist)
    THEN [closest |-> h, min_dist |-> h[1].distance, index |-> i]
    ELSE acc

RECURSIVE ClosestScan(_, _, _, _)
ClosestScan(ray, objects, i, acc) ==
    IF i > Len(objects) THEN acc
    ELSE ClosestScan(ray, objects, i + 1,
                     ClosestStep(acc, intersect(objects[i], ray), i))

ClosestHit(ray, objects) ==
    ClosestScan(ray, objects, 1,
                [closest |-> None, min_dist |-> F32_MAX, index |-> 0])

\* a faulty shadow test, the comparison reversed
Occludes_reversed(shadow_hit) == FLt(shadow_hit.distance, EPSILON)

\* `shadow_hit.distance > 1e-3`: the test that puts the point in shadow
Occludes(shadow_hit) == FGt(shadow_hit.distance, EPSILON)

\* the shadow loop from object i on: [shadow, tests], tests counting the
\* intersect calls made before the loop ends or breaks
ShadowHit(h) == h # None /\ Occludes(h[1])

RECURSIVE ShadowScan(_, _, _, _)
ShadowScan(shadow_ray, objects, i, tests) ==
    IF i > Len(objects) THEN [shadow |-> FALSE, tests |-> tests]
    ELSE IF ShadowHit(intersect(objects[i], shadow_ray))
         THEN [shadow |-> TRUE, tests |-> tests + 1]
         ELSE ShadowScan(shadow_ray, objects, i + 1, tests + 1)

LightDir(hit) == Normalize(VSub(light.origin, hit.point))

ShadowRay(hit) ==
    Ray(VAdd(hit.point, VScale(hit.normal, EPSILON)), LightDir(hit))

\* the intensity before the shadow test
Intensity(hit, zero) ==
    LET product == FMax(Dot(hit.normal, LightDir(hit)), 0, zero)
    IN  [c \in 1..3 |->
            FClamp(FMul(FDiv(light.intensity[c], F(255)), product), 0, ONE)]

\* local_color as (u8, u8, u8), from the intensity left by the shadow test
LocalColor(base_color, intensity) ==
    LET light_color == [c \in 1..3 |->
                           FClamp(FDiv(light.color[c], F(255)), 0, ONE)]
        local == [c \in 1..3 |->
                     FClamp(FMul(FDiv(base_color[c], F(255)), intensity[c]),
                            0, ONE)]
    IN  [c \in 1..3 |->
            AsU8(FMul(FMul(FClamp(local[c], 0, ONE),
                           FClamp(light_color[c], 0, ONE)), F(255)))]

\* a faulty reflection test, which also recurses at reflectivity 0
Reflective_always(r) == FGe(r, 0)

\* `reflectivity > 0.0`: the test that makes trace_ray recurse
Reflective(r) == FGt(r, 0)

ReflectedRay(ray, hit) ==
    Ray(VAdd(hit.point, VScale(hit.normal, EPSILON)),
        Normalize(reflect(ray.direction, hit.normal)))

\* a faulty blend, which rounds to the nearest integer
Blend_rounded(local_color, reflected_color, r) ==
    [c \in 1..3 |->
        AsU8(FAdd(FAdd(FMul(F(local_color[c]), FSub(ONE, r)),
                       FMul(F(reflected_color[c]), r)), Lit(1, 2)))]

\* the colour returned for a reflective surface
Blend(local_color, reflected_color, r) ==
    [c \in 1..3 |->
        AsU8(FAdd(FMul(F(local_color[c]), FSub(ONE, r)),
                  FMul(F(reflected_color[c]), r)))]

\* a faulty terminal condition, met one invocation late
DepthExhausted_late(depth) == depth < 0

\* `depth == 0`: the terminal condition of trace_ray
DepthExhausted(depth) == depth = 0

\* the colour returned at depth 0
Black == <<0, 0, 0>>

\* a faulty background, the colour of the ground
Background_blue == <<0, 0, 255>>

\* the colour returned when no object is hit
Background == <<0, 0, 0>>

\* One call of trace_ray.  color is the value returned; the other fields
\* observe the run: local is local_color of this invocation (Black when it
\* computes none), tests the number of intersect calls made, calls the number
\* of trace_ray invocations (this one and the recursive ones), scans and
\* shadow_scans the number of closest-hit loops and of shadow loops run,
\* lowest the least depth argument of an invocation.  zero is what f32::max
\* returns in this run for two zeros of opposite signs
RECURSIVE TraceRun(_, _, _, _)

\* the return of the reflective branch, `sub` being the recursive run
trace_reflected(local_color, r, tests, sub) ==
    [color |-> Blend(local_color, sub.color, r),
     local |-> local_color,
     tests |-> tests + sub.tests,
     calls |-> 1 + sub.calls,
     scans |-> 1 + sub.scans,
     shadow_scans |-> 1 + sub.shadow_scans,
     lowest |-> sub.lowest]

\* from local_color on: the reflection
trace_local(ray, objects, depth, zero, hit, local_color, tests) ==
    IF Reflective(reflectivity(hit.object))
    THEN trace_reflected(local_color, reflectivity(hit.object), tests,
                         TraceRun(ReflectedRay(ray, hit), objects, depth - 1,
                                  zero))
    ELSE [color |-> local_color, local |-> local_color, tests |-> tests,
          calls |-> 1, scans |-> 1, shadow_scans |-> 1, lowest |-> depth]

\* from the shadow loop's result sh on: intensity and local_color
trace_shadow(ray, objects, depth, zero, hit, sh) ==
    trace_local(ray, objects, depth, zero, hit,
                LocalColor(get_color(hit.object),
                           IF sh.shadow THEN <<0, 0, 0>>
                           ELSE Intensity(hit, zero)),
                Len(objects) + sh.tests)

\* from the closest-hit search's result on
trace_closest(ray, objects, depth, zero, closest) ==
    IF closest = None
    THEN [color |-> Background, local |-> Black, tests |-> Len(objects),
          calls |-> 1, scans |-> 1, shadow_scans |-> 0, lowest |-> depth]
    ELSE trace_shadow(ray, objects, depth, zero, closest[1],
                      ShadowScan(ShadowRay(closest[1]), objects, 1, 0))

TraceRun(ray, objects, depth, zero) ==
    IF DepthExhausted(depth)
    THEN [color |-> Black, local |-> Black, tests |-> 0, calls |-> 1,
          scans |-> 0, shadow_scans |-> 0, lowest |-> depth]
    ELSE trace_closest(ray, objects, depth, zero,
                       ClosestHit(ray, objects).closest)

trace_ray(ray, objects, depth, zero) ==
    TraceRun(ray, objects, depth, zero).color

\* Some((object, intersection)) of the closest hit, or None
closest_result(c) == IF c = None THEN None ELSE Some(<<c[1].object, c[1]>>)

closest_intersection(ray, objects) ==
    closest_result(ClosestHit(ray, objects).closest)

\* Camera::new (RayTracing::new): no argument is validated
\* up = right.cross(&forward).normalize()
Camera_basis(forward, right) ==
    <<forward, right, Normalize(Cross(right, forward))>>

Camera_right(forward, up_hint) ==
    Camera_basis(forward, Normalize(Cross(forward, up_hint)))

Camera_self(origin, basis, distance, height, width, fov) ==
    [origin |-> origin, forward |-> basis[1], right |-> basis[2],
     up |-> basis[3], distance |-> distance, height |-> height,
     width |-> width, fov |-> fov]

Camera_new(origin, look_at, up_hint, distance, height, width, fov) ==
    Camera_self(origin,
                Camera_right(Normalize(VSub(look_at, origin)), up_hint),
                distance, height, width, fov)

\* core::f32::consts::PI: 0x40490FDB
PI == 1078530011

\* f32::to_radians: self * (PI / 180.0)
to_radians(x) == FMul(x, FDiv(PI, F(180)))

(***************************************************************************)
(* Natural numbers of any size, for the f64 steps of tanf: the sequence of *)
(* the digits in base 2^12 = 4096, the least significant first.            *)
(***************************************************************************)
Digit(a, i) == IF i >= 1 /\ i <= Len(a) THEN a[i] ELSE 0

\* the digits of the number of columns cols[i], .., cols[n] and carry c: a
\* column is the sum of what weighs 4096^(i-1), not reduced to a digit yet
RECURSIVE Carried(_, _, _, _)
Carried(cols, n, i, c) ==
    LET Rest(v) == <<v % 4096>> \o Carried(cols, n, i + 1, v \div 4096)
    IN  IF i > n THEN (IF c = 0 THEN <<>> ELSE <<c>>)
        ELSE Rest(cols[i] + c)

\* a * b: the column k is the sum of the products of the digits of a and b
\* that weigh 4096^(k-1)
BigMul(a, b) ==
    LET RECURSIVE ColumnSum(_, _)
        ColumnSum(k, i) ==
            IF i > k \/ i > Len(a) THEN 0
            ELSE a[i] * Digit(b, k + 1 - i) + ColumnSum(k, i + 1)
    IN  Carried([k \in 1..Len(a) + Len(b) |-> ColumnSum(k, 1)],
                Len(a) + Len(b), 1, 0)

BigAdd(a, b) ==
    Carried([k \in 1..Len(a) + Len(b) |-> Digit(a, k) + Digit(b, k)],
            IF Len(a) > Len(b) THEN Len(a) ELSE Len(b), 1, 0)

\* a - b, a >= b
BigSub(a, b) == Carried([k \in 1..Len(a) |-> a[k] - Digit(b, k)], Len(a), 1, 0)

\* the natural number n < 2^31
Big(n) == <<n % 4096, (n \div 4096) % 4096, n \div TwoTo(24)>>

\* the value of a < 2^31
BigInt(a) == Digit(a, 1) + Digit(a, 2) * 4096 + Digit(a, 3) * TwoTo(24)

\* the number of bits of a: those up to the leading digit, 0 for the number 0
BitLen(a) ==
    LET UpTo(t) == IF t = 0 THEN 0 ELSE 12 * (t - 1) + FloorLog2(a[t]) + 1
    IN  UpTo(IF \A i \in 1..Len(a) : a[i] = 0 THEN 0
             ELSE CHOOSE i \in 1..Len(a) :
                      a[i] # 0 /\ \A j \in i + 1..Len(a) : a[j] = 0)

\* a >> s
BigShr(a, s) ==
    Carried([i \in 1..Len(a) |->
                Digit(a, i + s \div 12) \div TwoTo(s % 12)
                  + (Digit(a, i + s \div 12 + 1) % TwoTo(s % 12))
                      * TwoTo(12 - (s % 12))],
            Len(a) - s \div 12, 1, 0)

\* a << s
BigShl(a, s) ==
    Carried([i \in 1..Len(a) + s \div 12 + 1 |->
                Digit(a, i - s \div 12) * TwoTo(s % 12)],
            Len(a) + s \div 12 + 1, 1, 0)

\* the bit of weight 2^i
BigBit(a, i) == (Digit(a, i \div 12 + 1) \div TwoTo(i % 12)) % 2

\* a has a bit below the bit s
BigLow(a, s) == \E i \in 0..s - 1 : BigBit(a, i) = 1

\* a modulo 2^s
BigMod(a, s) ==
    Carried([i \in 1..s \div 12 + 1 |->
                IF i <= s \div 12 THEN Digit(a, i)
                ELSE Digit(a, i) % TwoTo(s % 12)],
            s \div 12 + 1, 1, 0)

\* a >= b: the highest digit they differ in is greater in a
BigGe(a, b) ==
    LET Differ == {i \in 1..Len(a) + Len(b) : Digit(a, i) # Digit(b, i)}
        Greater(D) ==
            D = {} \/ \E d \in D : Digit(a, d) > Digit(b, d) /\ \A e \in D : e <= d
    IN  Greater(Differ)

\* a rounded to t bits, to the nearest and ties to even, as <<q, s>>: the
\* rounded number is q * 2^s
BigRound(a, t) ==
    LET Dropping(s) ==
            IF s <= 0 THEN <<a, 0>>
            ELSE IF BigBit(a, s - 1) = 1 /\ (BigLow(a, s - 1) \/ BigBit(a, s) = 1)
                 THEN <<BigAdd(BigShr(a, s), <<1>>), s>>
            ELSE <<BigShr(a, s), s>>
    IN  Dropping(BitLen(a) - t)

(***************************************************************************)
(* f64, as far as tanf needs it: a finite number is <<s, m, e>>, of sign   *)
(* bit s and value m * 2^e, m a natural number of at most 53 bits.  The    *)
(* numbers of tanf are far from the overflow and underflow of f64.         *)
(***************************************************************************)
\* rounding to the 53 bits of f64
DRound(s, m, e) ==
    LET Rounded(qs) == <<s, qs[1], e + qs[2]>>
    IN  Rounded(BigRound(m, 53))

\* f32 as f64
FToD(x) ==
    IF IsZero(x) THEN <<Neg(x), <<0>>, 0>>
    ELSE <<Neg(x), Big(Sig(Mag(x))), Exp(Mag(x))>>

\* i32 as f64
IToD(n) == <<n < 0, Big(IF n < 0 THEN 0 - n ELSE n), 0>>

DMul(a, b) == DRound(a[1] # b[1], BigMul(a[2], b[2]), a[3] + b[3])

\* a - b, on the significands brought to the smaller exponent e
DSub(a, b) ==
    LET Sub(sa, ma, sb, mb, e) ==
            IF sa # sb THEN DRound(sa, BigAdd(ma, mb), e)
            ELSE IF BigGe(ma, mb)
                 THEN DRound(sa /\ ~BigGe(mb, ma), BigSub(ma, mb), e)
            ELSE DRound(~sa, BigSub(mb, ma), e)
        SubAt(e) ==
            Sub(a[1], BigShl(a[2], a[3] - e), b[1], BigShl(b[2], b[3] - e), e)
    IN  SubAt(IF a[3] < b[3] THEN a[3] ELSE b[3])

\* the integer part of |a| < 2^31
DTrunc(a) ==
    IF a[3] >= 0 THEN BigInt(BigShl(a[2], a[3]))
    ELSE BigInt(BigShr(a[2], 0 - a[3]))

\* f64 as f32: the 30 leading bits of the l bits and whether more follow
DToF(a) ==
    LET OfLen(l) ==
            IF l = 0 THEN Bits(a[1], 0)
            ELSE IF l <= 30 THEN RoundPack(a[1], BigInt(a[2]), a[3], FALSE)
            ELSE RoundPack(a[1], BigInt(BigShr(a[2], l - 30)), a[3] + l - 30,
                           BigLow(a[2], l - 30))
    IN  OfLen(BitLen(a[2]))

(***************************************************************************)
(* f32::tan.  The standard library calls tanf of the C library, glibc 2.36 *)
(* on the platform of the build (sysdeps/ieee754/flt-32): s_tanf.c reduces *)
(* an argument above pi/4 in f64 (reduce_fast and reduce_large of          *)
(* s_sincosf.h) and k_tanf.c evaluates the tangent in f32.                 *)
(***************************************************************************)
\* k_tanf.c: the coefficients T[0..12]
T ==
    <<1051372203, 1040746633, 1029508561, 1018374052, 1007761183,
      996894998, 985587272, 974792392, 964769721, 950268997,
      949338234, -932949600, 936989572>>

\* T[k-1] + w*(T[k+1] + w*(T[k+3] + ..)), to the end of T
RECURSIVE Horner(_, _)
Horner(w, k) ==
    IF k + 2 > Len(T) THEN T[k]
    ELSE FAdd(T[k], FMul(w, Horner(w, k + 2)))

\* r = y + z*(s*(r + v) + y); r += T[0]*s
PolyR(y, z, s, rv) ==
    FAdd(FAdd(y, FMul(z, FAdd(FMul(s, rv), y))), FMul(T[1], s))

\* w = z*z; r = T[1] + w*(T[3] + ..); v = z*(T[2] + w*(T[4] + ..)); s = z*x
PolyZ(x, y, z, w) ==
    PolyR(y, z, FMul(z, x), FAdd(Horner(w, 2), FMul(z, Horner(w, 3))))

\* the polynomial of __kernel_tanf: the r of `w = x + r`
Poly(x, y) == PolyZ(x, y, FMul(x, x), FMul(FMul(x, x), FMul(x, x)))

\* x with the low 12 bits of its word cleared (SET_FLOAT_WORD(z, i & 0xfffff000))
HighWord(x) == Bits(Neg(x), Mag(x) - (Mag(x) % TwoTo(12)))

\* -1.0/(x + r) computed accurately, the last lines of __kernel_tanf:
\* s = 1.0 + t*z; return t + a*(s + t*v)
Cotangent(t, a, z, v) ==
    FAdd(t, FMul(a, FAdd(FAdd(ONE, FMul(t, z)), FMul(t, v))))

\* what follows `w = x + r`; large is ix >= 0x3f2ca140 (|x| >= 0.6744) and
\* sign is 1 - ((hx >> 30) & 2), for the x of the call
KernelEnd(x, r, w, iy, large, sign) ==
    IF large
    THEN FMul(sign, FSub(F(iy), FMul(F(2),
             FSub(x, FSub(FDiv(FMul(w, w), FAdd(w, F(iy))), r)))))
    ELSE IF iy = 1 THEN w
    ELSE Cotangent(HighWord(FDiv(FNeg(ONE), w)), FDiv(FNeg(ONE), w),
                   HighWord(w), FSub(r, FSub(HighWord(w), x)))

\* from the polynomial on
KernelPoly(x, r, iy, large, sign) ==
    KernelEnd(x, r, FAdd(x, r), iy, large, sign)

\* __kernel_tanf after the test of a large x, xy being the x and y it leaves
KernelReduced(xy, iy, large, sign) ==
    IF large /\ FLt(FAbs(xy[1]), FDiv(ONE, F(8192)))
    THEN FMul(FMul(sign, F(iy)), FSub(ONE, FMul(F(2 * iy), xy[1])))
    ELSE KernelPoly(xy[1], Poly(xy[1], xy[2]), iy, large, sign)

\* __kernel_tanf(x, y, iy): tan(x + y) for iy = 1, -1/tan(x + y) for iy = -1.
\* For a large x: if (hx < 0) { x = -x; y = -y; } z = pio4 - x;
\* w = pio4lo - y; x = z + w; y = 0.0, pio4 being 0x3f490fda and pio4lo
\* 0x33222168.
kernel_tanf(x, y, iy) ==
    IF Mag(x) < 956301312
    THEN IF Mag(x) = 0 /\ iy = 0 - 1 THEN FDiv(ONE, FAbs(x))
         ELSE IF iy = 1 THEN x
         ELSE FDiv(FNeg(ONE), x)
    ELSE KernelReduced(IF Mag(x) < 1059889472 THEN <<x, y>>
                       ELSE <<FAdd(FSub(1061752794, FAbs(x)),
                                   FSub(857874792,
                                        IF Neg(x) THEN FNeg(y) ELSE y)), 0>>,
                       iy, Mag(x) >= 1059889472,
                       IF Neg(x) THEN FNeg(ONE) ELSE ONE)

\* reduce_fast: <<x - n * hpi, n>>, n the multiple of pi/2 nearest to x
reduce_fast(x) ==
    LET \* s_sincosf.h: hpi_inv = 2/pi * 2^24, hpi = pi/2
        hpi_inv == <<FALSE, <<2179, 3228, 109, 1523, 20>>, 0 - 29>>
        hpi == <<FALSE, <<3352, 1090, 2900, 543, 25>>, 0 - 52>>
        \* n = ((int32_t) r + 0x800000) >> 24
        N(i) ==
            IF Neg(x) THEN (TwoTo(23) - i) \div TwoTo(24)
            ELSE (i + TwoTo(23)) \div TwoTo(24)
        Reduced(xd, n) == <<DSub(xd, DMul(IToD(n), hpi)), n>>
    IN  Reduced(FToD(x), N(DTrunc(DMul(FToD(x), hpi_inv))))

\* reduce_large, and the change of sign s_tanf.c makes for x < 0
reduce_large(x) ==
    LET \* s_sincosf.h: pi63 = pi * 2^-63, and __inv_pio4, the bits of 4/pi
        \* in words of 32 bits that overlap
        pi63 == <<FALSE, <<3352, 1090, 2900, 543, 25>>, 0 - 114>>
        inv_pio4 ==
            <<<<162, 0, 0>>, <<761, 10, 0>>, <<2435, 2607, 0>>,
              <<878, 3992, 162>>, <<3662, 2102, 249>>, <<3652, 1764, 131>>,
              <<1045, 1252, 110>>, <<1321, 1089, 78>>, <<2556, 338, 68>>,
              <<3111, 671, 21>>, <<1879, 4034, 41>>, <<2001, 629, 252>>,
              <<501, 1405, 39>>, <<1332, 3359, 87>>, <<1245, 3923, 209>>,
              <<3520, 845, 245>>, <<219, 3548, 52>>, <<2914, 3085, 221>>,
              <<661, 3510, 192>>, <<1433, 1577, 219>>, <<2364, 2393, 98>>,
              <<3139, 2451, 149>>, <<912, 964, 153>>, <<65, 1081, 60>>>>
        \* res0 = xi * arr[0]; res0 = (res2 >> 32) | (res0 << 32); res0 += res1
        Sum(xi, arr0, arr4, arr8) ==
            BigMod(BigAdd(BigAdd(BigShr(BigMul(xi, arr8), 32),
                                 BigShl(BigMod(BigMul(xi, arr0), 32), 32)),
                          BigMul(xi, arr4)), 64)
        \* res0 -= n << 62; x = (int64_t) res0
        Signed64(t) ==
            IF BigBit(t, 61) = 1 THEN DRound(FALSE, BigMod(t, 61), 0)
            ELSE DRound(TRUE, BigSub(BigShl(<<1>>, 61), BigMod(t, 61)), 0)
        \* n = (res0 + (1ULL << 61)) >> 62, with res0 + (1ULL << 61) for u
        Reduced(u) ==
            <<DMul(Signed64(BigMod(u, 62)), pi63), BigInt(BigShr(u, 62))>>
        Of(xi, k) ==
            Reduced(BigMod(BigAdd(Sum(xi, inv_pio4[k + 1], inv_pio4[k + 5],
                                      inv_pio4[k + 9]),
                                  BigShl(<<1>>, 61)), 64))
        Negated(xn) ==
            IF Neg(x) THEN <<<<~xn[1][1], xn[1][2], xn[1][3]>>, xn[2]>> ELSE xn
    IN  Negated(Of(Big(((Mag(x) % TwoTo(23)) + TwoTo(23))
                           * TwoTo((Mag(x) \div TwoTo(23)) % 8)),
                   (Mag(x) \div TwoTo(26)) % 16))

\* tanf: __kernel_tanf of x, or of the reduced argument split in two f32
\* (y[0] = x_reduced; y[1] = x_reduced - y[0]) for the odd or even n
tan(x) ==
    LET Kernel(a) == kernel_tanf(a[1], a[2], a[3])
        Halves(xr, y0, n) == <<y0, DToF(DSub(xr, FToD(y0))), 1 - 2 * (n % 2)>>
        OfReduced(xn) == Halves(xn[1], DToF(xn[1]), xn[2])
    IN  IF IsNaN(x) \/ IsInf(x) THEN NaN
        ELSE Kernel(IF Mag(x) <= 1061752794 THEN <<x, 0, 1>>
                    ELSE IF Mag(x) \div TwoTo(20) < 1071
                         THEN OfReduced(reduce_fast(x))
                    ELSE OfReduced(reduce_large(x)))

\* (fov_rad / 2.0).tan()
TanHalfFov(fov) == tan(FDiv(to_radians(fov), F(2)))

\* the body of the pixel loop of generate_rays: the ray of column i, row j,
\* for the image_plane_height computed before the loops
PixelOfPlane(self, i, j, image_plane_height) ==
    LET aspect_ratio == FDiv(F(self.width), F(self.height))
        image_plane_width == FMul(image_plane_height, aspect_ratio)
        pixel_x == FDiv(FAdd(F(i), Lit(1, 2)), F(self.width))
        pixel_y == FDiv(FAdd(F(j), Lit(1, 2)), F(self.height))
        pixel_screen_x ==
            FDiv(FMul(FSub(FMul(F(2), pixel_x), ONE), image_plane_width), F(2))
        pixel_screen_y ==
            FDiv(FMul(FSub(ONE, FMul(F(2), pixel_y)), image_plane_height), F(2))
        pixel_position ==
            VAdd(VAdd(VAdd(self.origin, VScale(self.forward, self.distance)),
                      VScale(self.right, pixel_screen_x)),
                 VScale(self.up, pixel_screen_y))
    IN  Ray(self.origin, Normalize(VSub(pixel_position, self.origin)))

\* the ray generate_rays pushes for column i of row j
PixelRay(self, i, j) ==
    PixelOfPlane(self, i, j,
                 FMul(FMul(F(2), TanHalfFov(self.fov)), self.distance))

\* faulty loops, columns outside and rows inside
RECURSIVE GenLoop_columns(_, _, _, _)
GenLoop_columns(self, j, i, rays) ==
    IF i >= self.width THEN rays
    ELSE IF j >= self.height THEN GenLoop_columns(self, 0, i + 1, rays)
    ELSE GenLoop_columns(self, j + 1, i, Append(rays, PixelRay(self, i, j)))

\* the loops of generate_rays, at row j and column i with `rays` pushed so far
RECURSIVE GenLoop(_, _, _, _)
GenLoop(self, j, i, rays) ==
    IF j >= self.height THEN rays
    ELSE IF i >= self.width THEN GenLoop(self, j + 1, 0, rays)
    ELSE GenLoop(self, j, i + 1, Append(rays, PixelRay(self, i, j)))

generate_rays(self) == GenLoop(self, 0, 0, <<>>)

\* the depth new_render passes to trace_ray
RENDER_DEPTH == 3

\* the characters of the digits 0..9
Digits == <<"0", "1", "2", "3", "4", "5", "6", "7", "8", "9">>

\* Display of an unsigned integer: the characters of its decimal digits, most
\* significant first
RECURSIVE Decimal(_)
Decimal(n) ==
    IF n < 10 THEN <<Digits[n + 1]>>
    ELSE Append(Decimal(n \div 10), Digits[(n % 10) + 1])

\* the value a sequence of digit characters is read as
RECURSIVE ParseDecimal(_)
ParseDecimal(ds) ==
    IF ds = <<>> THEN 0
    ELSE 10 * ParseDecimal(SubSeq(ds, 1, Len(ds) - 1))
           + (CHOOSE d \in 0..9 : Digits[d + 1] = ds[Len(ds)])

\* a faulty pixel line, blue first
PixelLine_bgr(color) ==
    Decimal(color[3]) \o <<" ">> \o Decimal(color[2]) \o <<" ">>
        \o Decimal(color[1]) \o <<"\n">>

\* the characters of one writeln! of a pixel: "{} {} {}" and the newline
PixelLine(color) ==
    Decimal(color[1]) \o <<" ">> \o Decimal(color[2]) \o <<" ">>
        \o Decimal(color[3]) \o <<"\n">>

\* the characters of the three writeln! of the header
Header(self) ==
    <<"P", "3", "\n">>
        \o Decimal(self.width) \o <<" ">> \o Decimal(self.height) \o <<"\n">>
        \o <<"2", "5", "5", "\n">>

\* the loop over the rays: the characters written for rs[k], rs[k + 1], ..
RECURSIVE RenderLoop(_, _, _, _)
RenderLoop(rs, objects, zero, k) ==
    IF k > Len(rs) THEN <<>>
    ELSE PixelLine(trace_ray(rs[k], objects, RENDER_DEPTH, zero))
             \o RenderLoop(rs, objects, zero, k + 1)

\* new_render when the file is created and every write succeeds: the
\* characters the file holds when the method returns
new_render(self, objects, zero) ==
    Header(self) \o RenderLoop(generate_rays(self), objects, zero, 1)

\* how a call of new_render ends when it is its I/O operation `fail` that
\* fails, `out` being what it writes when none does: operation 0 is
\* File::create, operation k the write of the character k, and fail is
\* Len(out) + 1 when none fails.  The expect or unwrap of the operation
\* panics; the number of newlines written tells the writeln! of a write.
PanicSite(out, fail) ==
    LET Site(newlines) ==
            CASE newlines = 0 -> "camera.rs:234"
              [] newlines = 1 -> "camera.rs:235"
              [] newlines = 2 -> "camera.rs:236"
              [] OTHER -> "camera.rs:246"
    IN  IF fail = 0 THEN "camera.rs:232"
        ELSE IF fail > Len(out) THEN "none"
        ELSE Site(Cardinality({k \in 1..fail - 1 : out[k] = "\n"}))

(***************************************************************************)
(* The scenes, cameras and rays of the model.                              *)
(***************************************************************************)
MaxDepth == 3
MaxDim == 2

\* main's four primitives
sphere1 == Sphere(Vec(0, 0, F(-5)), F(1), <<F(200), F(200), F(200)>>, ONE)
sphere2 ==
    Sphere(Vec(F(-2), Lit(-1, 2), F(1)), Lit(1, 2), <<F(255), F(255), 0>>, 0)
sphere3 == Sphere(Vec(F(2), Lit(3, 4), F(2)), Lit(3, 2), <<F(255), 0, 0>>, 0)
ground  == Plane(Vec(0, F(-1), 0), Vec(0, ONE, 0), <<0, 0, F(255)>>, 0)

\* the object lists main may build: its own, and lists of primitives the pub
\* fields admit
Scenes ==
    LET \* a second plane in the place of the ground, of another colour
        ground2 == Plane(Vec(0, F(-1), 0), Vec(0, ONE, 0), <<F(255), 0, 0>>, 0)
        \* a sphere between the light and the point of the ground below the
        \* camera
        occluder ==
            Sphere(Vec(Lit(-5, 2), F(2), F(5)), F(1), <<F(255), 0, F(255)>>, 0)
        \* sphere1 with reflectivity 1/2 and 1/4
        half == Sphere(Vec(0, 0, F(-5)), F(1), <<F(255), 0, 0>>, Lit(1, 2))
        quarter == Sphere(Vec(0, 0, F(-5)), F(1), <<F(255), 0, 0>>, Lit(1, 4))
        \* sphere1 with reflectivities that are no multiples of a power of 1/2
        third ==
            Sphere(Vec(0, 0, F(-5)), F(1), <<F(255), F(200), F(10)>>, Lit(3, 10))
        tenth ==
            Sphere(Vec(0, 0, F(-5)), F(1), <<F(255), F(200), F(10)>>, Lit(1, 10))
        \* a sphere between the light and the point of sphere1 that faces the
        \* camera
        occluder2 ==
            Sphere(Vec(Lit(-5, 2), Lit(5, 2), Lit(1, 2)), F(1),
                   <<0, 0, F(255)>>, 0)
        \* spheres behind the camera, facing sphere1: diffuse, half mirror,
        \* mirror
        back == Sphere(Vec(0, 0, F(8)), F(1), <<F(255), 0, F(255)>>, 0)
        back_half ==
            Sphere(Vec(0, 0, F(8)), F(1), <<F(255), 0, F(255)>>, Lit(1, 2))
        back_mirror == Sphere(Vec(0, 0, F(8)), F(1), <<F(255), 0, F(255)>>, ONE)
        \* a sphere around the camera
        around == Sphere(Vec(0, 0, F(5)), F(2), <<F(255), 0, F(255)>>, 0)
        \* a sphere that the ray going up from the camera grazes, at a point
        \* level with the light and beyond it: normal.dot(&light_dir) is -0.0
        \* there
        grazed == Sphere(Vec(0, F(8), F(6)), F(1), <<F(255), F(255), F(255)>>, 0)
        \* a sphere of radius 0 in the place of sphere1, a sphere of radius -1
        \* in the place of back, a plane in the place of the ground with a
        \* normal of length 0
        point_sphere == Sphere(Vec(0, 0, F(-5)), 0, <<F(255), 0, 0>>, 0)
        inverted == Sphere(Vec(0, 0, F(8)), F(-1), <<F(255), 0, F(255)>>, 0)
        flat == Plane(Vec(0, F(-1), 0), Vec(0, 0, 0), <<0, 0, F(255)>>, 0)
    IN  {<<>>,
         <<sphere1, sphere2, sphere3, ground>>,
         <<ground>>, <<ground, occluder>>, <<occluder, ground>>,
         <<ground, ground2>>, <<ground2, ground>>,
         <<sphere1>>, <<sphere1, back>>, <<back, sphere1>>,
         <<half, back>>, <<half, occluder2, back>>, <<half, occluder2>>,
         <<quarter, back_half>>, <<sphere1, back_mirror>>,
         <<third, back>>, <<tenth>>,
         <<around>>, <<around, sphere1>>, <<grazed>>,
         <<point_sphere, inverted, flat>>}

CameraOrigin == Vec(0, 0, F(5))

TestRays ==
    {Ray(CameraOrigin, Vec(0, 0, F(-1))),
     Ray(CameraOrigin, Vec(0, 0, F(-2))),
     Ray(CameraOrigin, Vec(0, 0, F(1))),
     Ray(CameraOrigin, Vec(0, F(-1), 0)),
     Ray(CameraOrigin, Vec(0, F(1), 0))}

\* the points main may look at: ahead, straight up (parallel to the up
\* hint), and the camera's own position
LookAts == {Vec(0, 0, F(-1)), Vec(0, F(8), F(5)), CameraOrigin}

(***************************************************************************)
(* The program: main builds the scene, constructs the camera and calls     *)
(* its methods.                                                            *)
(***************************************************************************)
VARIABLES
    objects,    \* the object list main builds and passes to every call
    camera,     \* None, or Some(the camera constructed)
    pc,         \* "start", "ready", "generated", "returned", "panicked"
    rays,       \* the rays returned by the last generate_rays
    prev_rays,  \* those returned by the call before it
    gen_calls,  \* number of generate_rays calls made on the camera
    max_depth,  \* the depth asked for by the caller of the render
    file,       \* None, or Some(the characters the output file holds)
    ret         \* the last call made and what it returned

vars == <<objects, camera, pc, rays, prev_rays, gen_calls, max_depth, file, ret>>

NoCall == [op |-> "none"]

Init ==
    /\ objects \in Scenes
    /\ camera = None
    /\ pc = "start"
    /\ rays = <<>>
    /\ prev_rays = <<>>
    /\ gen_calls = 0
    /\ max_depth = 0
    /\ file = None
    /\ ret = NoCall

New(look_at, height, width) ==
    /\ pc = "start"
    /\ camera' = Some(Camera_new(CameraOrigin, look_at, Vec(0, ONE, 0), ONE,
                                 height, width, F(90)))
    /\ pc' = "ready"
    /\ UNCHANGED <<objects, rays, prev_rays, gen_calls, max_depth, file, ret>>

GenerateRays ==
    /\ pc \in {"ready", "generated"}
    /\ gen_calls < 2
    /\ rays' = generate_rays(camera[1])
    /\ prev_rays' = rays
    /\ gen_calls' = gen_calls + 1
    /\ pc' = "generated"
    /\ UNCHANGED <<objects, camera, max_depth, file, ret>>

CallRays == IF pc = "ready" THEN TestRays ELSE {rays[k] : k \in 1..Len(rays)}

Intersect(obj, ray) ==
    /\ pc \in {"ready", "generated"}
    /\ ret' = [op |-> "intersect", obj |-> obj, ray |-> ray,
               result |-> intersect(obj, ray)]
    /\ pc' = "returned"
    /\ UNCHANGED <<objects, camera, rays, prev_rays, gen_calls, max_depth, file>>

TraceRet(ray, depth, run) ==
    [op |-> "trace_ray", ray |-> ray, depth |-> depth,
     result |-> run.color, local |-> run.local,
     tests |-> run.tests, calls |-> run.calls,
     scans |-> run.scans, shadow_scans |-> run.shadow_scans,
     lowest |-> run.lowest]

TraceRay(ray, depth, zero) ==
    /\ pc \in {"ready", "generated"}
    /\ ret' = TraceRet(ray, depth, TraceRun(ray, objects, depth, zero))
    /\ pc' = "returned"
    /\ UNCHANGED <<objects, camera, rays, prev_rays, gen_calls, max_depth, file>>

ClosestIntersection(ray) ==
    /\ pc \in {"ready", "generated"}
    /\ ret' = [op |-> "closest_intersection", ray |-> ray,
               result |-> closest_intersection(ray, objects)]
    /\ pc' = "returned"
    /\ UNCHANGED <<objects, camera, rays, prev_rays, gen_calls, max_depth, file>>

\* A call of new_render.  The file is not buffered and write_all may have
\* written a part of its argument when it fails, so that a failed render
\* leaves the file as it was (File::create failed) or holding any proper
\* prefix of `out`.
RenderOutcome(out, fail) ==
    /\ file' = IF fail = 0 THEN file ELSE Some(SubSeq(out, 1, fail - 1))
    /\ ret' = [op |-> "new_render", panic |-> PanicSite(out, fail)]
    /\ pc' = IF fail > Len(out) THEN "returned" ELSE "panicked"

RenderOutcomes(out) == \E fail \in 0..Len(out) + 1 : RenderOutcome(out, fail)

NewRender(depth, zero) ==
    /\ pc = "ready"
    /\ max_depth' = depth
    /\ RenderOutcomes(new_render(camera[1], objects, zero))
    /\ UNCHANGED <<objects, camera, rays, prev_rays, gen_calls>>

Next ==
    \/ \E look_at \in LookAts, height \in 0..MaxDim, width \in 0..MaxDim :
          New(look_at, height, width)
    \/ GenerateRays
    \/ \E i \in 1..Len(objects), ray \in CallRays : Intersect(objects[i], ray)
    \/ \E ray \in CallRays, depth \in 0..MaxDepth, zero \in MaxZeros :
          TraceRay(ray, depth, zero)
    \/ \E ray \in CallRays : ClosestIntersection(ray)
    \/ \E depth \in 0..MaxDepth, zero \in MaxZeros : NewRender(depth, zero)

Spec == Init /\ [][Next]_vars

(***************************************************************************)
(* The claims.                                                             *)
(***************************************************************************)
\* the positions of the objects whose intersect returns a hit for `ray`
Hits(ray) == {i \in 1..Len(objects) : intersect(objects[i], ray) # None}

\* the closest hit of the ray of the last call, as trace_ray finds it
RetClosest == ClosestHit(ret.ray, objects).closest

Traced == ret.op = "trace_ray"

\* C1: trace_ray called with depth 0 returns exactly (0,0,0), for every ray
\* and every object list, whether or not the ray would hit an object, and
\* makes no intersect call.
C1_DepthZeroIsBlack ==
    (Traced /\ ret.depth = 0) => (ret.result = <<0, 0, 0>> /\ ret.tests = 0)

\* a call at depth 0 of a ray that hits an object and is not black at depth 1
C1_Witness ==
    /\ Traced /\ ret.depth = 0
    /\ Hits(ret.ray) # {}
    /\ \A zero \in MaxZeros : trace_ray(ret.ray, objects, 1, zero) # <<0, 0, 0>>

\* C2: for every depth, a ray for which intersect returns nothing on every
\* object of the list (the empty list included) is traced to exactly (0,0,0).
C2_MissIsBlack ==
    (Traced /\ Hits(ret.ray) = {}) => ret.result = <<0, 0, 0>>

\* a call at depth >= 1 on a non-empty list that the ray misses entirely
C2_Witness ==
    /\ Traced /\ ret.depth >= 1
    /\ objects # <<>>
    /\ Hits(ret.ray) = {}

\* the statement of C3 about one intersect call
ForwardHit(obj, ray, res) ==
    /\ res # None => FGe(res[1].distance, 0)
    /\ obj.kind = "Sphere" =>
          LET roots == Sphere_roots(obj, ray) IN
          IF roots = None THEN res = None
          ELSE IF FGe(roots[1][1], 0)
               THEN res # None /\ res[1].distance = roots[1][1]
          ELSE IF FGe(roots[1][2], 0)
               THEN res # None /\ res[1].distance = roots[1][2]
          ELSE res = None
    /\ (obj.kind = "Plane" /\ FLt(Plane_t(obj, ray), 0)) => res = None

\* C3: for both Sphere and Plane, every hit intersect returns has a distance
\* >= 0; a sphere returns the smaller root t1 when t1 >= 0, else the larger
\* root t2 when t2 >= 0, else nothing; a plane returns nothing when t < 0.
C3_IntersectForward ==
    ret.op = "intersect" => ForwardHit(ret.obj, ret.ray, ret.result)

\* the same for the rays whose direction is not NaN
C3_IntersectForwardOfFiniteRays ==
    (ret.op = "intersect" /\ ~VIsNaN(ret.ray.direction)) =>
        ForwardHit(ret.obj, ret.ray, ret.result)

\* the permutations of 1..n
Perms(n) ==
    {f \in [1..n -> 1..n] : \A i, j \in 1..n : i # j => f[i] # f[j]}

\* the statement of C4 about one closest-hit search
FirstMinimum(ray, res) ==
    LET hits == Hits(ray)
        dist(i) == intersect(objects[i], ray)[1].distance
        ties == \E i, j \in hits : i # j /\ Ord(dist(i)) = Ord(dist(j))
    IN  IF hits = {} THEN res = None
        ELSE /\ res # None
             /\ \E i \in hits :
                   /\ res[1][1] = objects[i]
                   /\ res[1][2] = intersect(objects[i], ray)[1]
                   /\ \A j \in hits : FGe(dist(j), dist(i))
                   /\ \A j \in hits : Ord(dist(j)) = Ord(dist(i)) => i <= j
             /\ ~ties =>
                   \A p \in Perms(Len(objects)) :
                       closest_intersection(
                           ray, [k \in 1..Len(objects) |-> objects[p[k]]]) = res

\* C4: the closest-hit search selects, among the objects whose intersect
\* returns a hit, one of minimum distance, the first of the list among those
\* at the minimum; without ties the selection does not depend on the order of
\* the list.
C4_ClosestIsFirstMinimum ==
    ret.op = "closest_intersection" => FirstMinimum(ret.ray, ret.result)

\* the same for the rays whose direction is not NaN
C4_ClosestIsFirstMinimumOfFiniteRays ==
    (ret.op = "closest_intersection" /\ ~VIsNaN(ret.ray.direction)) =>
        FirstMinimum(ret.ray, ret.result)

\* some object of the list intersects the shadow ray of `hit` beyond 1e-3
Occluded(hit) ==
    \E i \in 1..Len(objects) :
        LET h == intersect(objects[i], ShadowRay(hit))
        IN  h # None /\ FGt(h[1].distance, Lit(1, 1000))

\* C5: in trace_ray with depth >= 1 and a closest hit, if any object
\* intersects the shadow ray at a distance > 1e-3 then local_color is exactly
\* (0,0,0) whatever the base colour, and a non-reflective surface returns
\* (0,0,0); if none does, the intensity is the unshadowed one.
C5_ShadowZeroesLocalColor ==
    (Traced /\ ret.depth >= 1 /\ RetClosest # None) =>
        LET hit == RetClosest[1] IN
        IF Occluded(hit)
        THEN /\ ret.local = <<0, 0, 0>>
             /\ FEq(reflectivity(hit.object), 0) => ret.result = <<0, 0, 0>>
        ELSE \A zero \in MaxZeros :
                ret.local = LocalColor(get_color(hit.object),
                                       Intensity(hit, zero))

\* a non-reflective point that the light would colour, in shadow
C5_Witness ==
    /\ Traced /\ ret.depth >= 1 /\ RetClosest # None
    /\ Occluded(RetClosest[1])
    /\ FEq(reflectivity(RetClosest[1].object), 0)
    /\ \A zero \in MaxZeros :
          LocalColor(get_color(RetClosest[1].object),
                     Intensity(RetClosest[1], zero)) # <<0, 0, 0>>
    /\ ret.result = <<0, 0, 0>>

\* C6: when the closest-hit object has reflectivity 0, trace_ray returns
\* local_color and makes no recursive call, so that the result is the same
\* at every depth >= 1.
C6_DiffuseIgnoresDepth ==
    (Traced /\ ret.depth >= 1 /\ RetClosest # None
            /\ FEq(reflectivity(RetClosest[1].object), 0)) =>
        /\ ret.result = ret.local
        /\ ret.calls = 1
        /\ \A d \in 1..MaxDepth, zero \in MaxZeros :
              trace_ray(ret.ray, objects, d, zero) = ret.result

\* a lit non-reflective hit traced at depth >= 2 in a scene with a mirror
C6_Witness ==
    /\ Traced /\ ret.depth >= 2 /\ RetClosest # None
    /\ FEq(reflectivity(RetClosest[1].object), 0)
    /\ ret.result # <<0, 0, 0>>
    /\ \E i \in 1..Len(objects) : FGt(reflectivity(objects[i]), 0)

\* the significand sig * 2^exp as a fraction <<n, d>> in lowest terms, d a
\* power of 2
RECURSIVE Dyadic(_, _)
Dyadic(sig, exp) ==
    IF exp >= 0 THEN <<sig * TwoTo(exp), 1>>
    ELSE IF sig % 2 = 0 THEN Dyadic(sig \div 2, exp + 1)
    ELSE <<sig, TwoTo(0 - exp)>>

\* the normal number r >= 0 as a fraction
Fraction(r) == Dyadic(RawSig(Mag(r)), RawExp(Mag(r)))

\* local*(1-r) + reflected*r in the f32 arithmetic of the program
BlendValue(l, m, r) == FAdd(FMul(F(l), FSub(ONE, r)), FMul(F(m), r))

\* the integer part of the f32 x >= 0
Truncated(x) ==
    IF Mag(x) < ONE THEN 0 ELSE Fraction(x)[1] \div Fraction(x)[2]

\* the integers l and m weighted by 1 - n/d and n/d, times d
Weighted(l, m, nd) == l * (nd[2] - nd[1]) + m * nd[1]

\* local*(1-r) + reflected*r truncated to an integer, in the arithmetic of
\* the rationals
ExactBlend(l, m, r) == Weighted(l, m, Fraction(r)) \div Fraction(r)[2]

\* the law of reflection, to 10^-5: `out` is `in` with its component along
\* the normal reversed
Mirrored(in, out, normal) ==
    /\ FLt(FAbs(FAdd(Dot(out, normal), Dot(Normalize(in), normal))),
           Lit(1, 100000))
    /\ \A c \in 1..3 :
          FLt(FAbs(Cross(VSub(out, Normalize(in)), normal)[c]), Lit(1, 100000))

\* C7: when the closest-hit object has reflectivity r > 0, trace_ray returns,
\* channel by channel, local*(1-r) + reflected*r truncated to an integer,
\* reflected being trace_ray of the mirror-reflected ray at depth - 1; for
\* r = 1 that is the recursive call's result itself.  The blend is the f32
\* value the expression has; where r is a multiple of 1/4 no f32 operation
\* of it rounds and the value is that of the rationals.
C7_ReflectiveBlend ==
    (Traced /\ ret.depth >= 1 /\ RetClosest # None
            /\ FGt(reflectivity(RetClosest[1].object), 0)) =>
        \A zero \in MaxZeros :
        LET hit == RetClosest[1]
            r == reflectivity(hit.object)
            rray == ReflectedRay(ret.ray, hit)
            reflected == trace_ray(rray, objects, ret.depth - 1, zero)
        IN  /\ \A c \in 1..3 :
                  LET v == BlendValue(ret.local[c], reflected[c], r) IN
                  /\ FGe(v, 0) /\ FLt(v, F(256))
                  /\ ret.result[c] = Truncated(v)
                  /\ Fraction(r)[2] <= 4 =>
                        ret.result[c] =
                            ExactBlend(ret.local[c], reflected[c], r)
            /\ r = ONE => ret.result = reflected
            /\ Mirrored(ret.ray.direction, rray.direction, hit.normal)
            /\ ret.calls >= 2

\* a blend of two colours that are not black, with a fraction cut off
C7_Witness ==
    /\ Traced /\ ret.depth >= 2 /\ RetClosest # None
    /\ \A zero \in MaxZeros :
       LET hit == RetClosest[1]
           r == reflectivity(hit.object)
           reflected == trace_ray(ReflectedRay(ret.ray, hit), objects,
                                  ret.depth - 1, zero)
       IN  /\ FGt(r, 0) /\ FLt(r, ONE)
           /\ ret.local[1] > 0 /\ reflected[1] > 0
           /\ FLt(F(ret.result[1]),
                  BlendValue(ret.local[1], reflected[1], r))

\* C8: generate_rays returns exactly width*height rays in raster order (the
\* ray at index j*width + i is that of column i of row j), each with the
\* camera's origin; a second call on the camera returns the same sequence.
C8_RaysInRasterOrder ==
    pc = "generated" =>
        LET cam == camera[1]
            w == cam.width
            h == cam.height
        IN  /\ Len(rays) = w * h
            /\ \A j \in 0..h - 1 : \A i \in 0..w - 1 :
                  /\ rays[j * w + i + 1] = PixelRay(cam, i, j)
                  /\ rays[j * w + i + 1].origin = cam.origin
            /\ ~(VIsNaN(cam.right) \/ VIsNaN(cam.up)) =>
                  \A j \in 0..h - 1 : \A i \in 0..w - 1 :
                      LET d == rays[j * w + i + 1].direction IN
                      /\ i > 0 => FLt(Dot(rays[j * w + i].direction,
                                          cam.right), Dot(d, cam.right))
                      /\ j > 0 => FGt(Dot(rays[(j - 1) * w + i + 1].direction,
                                          cam.up), Dot(d, cam.up))
            /\ gen_calls = 2 => rays = prev_rays

\* the second call on a camera of two rows and two columns
C8_Witness ==
    /\ pc = "generated" /\ gen_calls = 2
    /\ camera[1].width = 2 /\ camera[1].height = 2
    /\ ~VIsNaN(camera[1].right)
    /\ Len(rays) = 4

\* the pieces of cs[k], cs[k + 1], .. that the separator sep ends or
\* separates, `piece` being the characters of the current piece read so far
RECURSIVE Split(_, _, _, _)
Split(cs, sep, k, piece) ==
    IF k > Len(cs) THEN (IF piece = <<>> THEN <<>> ELSE <<piece>>)
    ELSE IF cs[k] = sep THEN <<piece>> \o Split(cs, sep, k + 1, <<>>)
    ELSE Split(cs, sep, k + 1, Append(piece, cs[k]))

\* the lines of a text, and the blank-separated tokens of a line
Lines(cs) == Split(cs, "\n", 1, <<>>)
Tokens(line) == Split(line, " ", 1, <<>>)

\* a call of new_render has run to its end
Rendered == ret.op = "new_render" /\ pc = "returned"

\* the file is the PPM image of the camera's rays traced at depth d
RenderedAt(d) ==
    LET cam == camera[1]
        lines == Lines(file[1])
        w == cam.width
        h == cam.height
    IN  /\ file[1][Len(file[1])] = "\n"
        /\ Len(lines) = 3 + w * h
        /\ lines[1] = <<"P", "3">>
        /\ Len(Tokens(lines[2])) = 2
        /\ ParseDecimal(Tokens(lines[2])[1]) = w
        /\ ParseDecimal(Tokens(lines[2])[2]) = h
        /\ lines[3] = <<"2", "5", "5">>
        /\ \A k \in 1..w * h, zero \in MaxZeros :
              LET color == trace_ray(PixelRay(cam, (k - 1) % w, (k - 1) \div w),
                                     objects, d, zero)
                  tokens == Tokens(lines[3 + k])
              IN  /\ Len(tokens) = 3
                  /\ \A c \in 1..3 :
                        /\ tokens[c] = Decimal(color[c])
                        /\ ParseDecimal(tokens[c]) = color[c]
                        /\ color[c] \in 0..255

\* C9, as claimed: the render takes a caller-supplied max_depth and the k-th
\* pixel written is the trace of the k-th generated ray at that max_depth.
C9_RenderAtMaxDepth == Rendered => RenderedAt(max_depth)

\* C9, amended: the render takes no depth and the k-th pixel is the trace of
\* the k-th generated ray at the fixed depth 3; written out, the image is P3,
\* "width height", 255 and width*height "r g b" lines in raster order, each
\* value in 0..255.
C9_RenderAtDepthThree == Rendered => RenderedAt(3)

\* a 2x2 image with a pixel that is not black, asked for at another depth
C9_Witness ==
    /\ Rendered
    /\ max_depth # 3
    /\ camera[1].width = 2 /\ camera[1].height = 2
    /\ \E k \in 4..7 : Lines(file[1])[k] # <<"0", " ", "0", " ", "0">>

\* C10: a camera whose look direction is parallel to up_hint, or whose
\* look_at is its origin, is never constructed: no camera object has a basis
\* with NaN in it.
C10_NoDegenerateCamera ==
    camera # None =>
        /\ ~VIsNaN(camera[1].forward)
        /\ ~VIsNaN(camera[1].right)
        /\ ~VIsNaN(camera[1].up)

\* the geometry of a primitive is valid: a sphere's radius is > 0, a plane's
\* normal is not of length 0
ValidGeometry(obj) ==
    IF obj.kind = "Sphere" THEN FGt(obj.radius, 0)
    ELSE ~VIsNaN(obj.normal) /\ \E c \in 1..3 : ~IsZero(obj.normal[c])

\* C11: a sphere with zero or negative radius, or a plane with a normal of
\* length 0, is rejected when it is constructed: no such primitive is in the
\* object list passed to trace_ray or to the render.
C11_NoInvalidPrimitive ==
    ret.op \in {"trace_ray", "new_render"} =>
        \A i \in 1..Len(objects) : ValidGeometry(objects[i])

\* C12: every call trace_ray(ray, objects, depth) ends, scenes of mutually
\* facing mirrors of reflectivity 1 included: each invocation makes at most
\* one recursive call, with depth - 1, so that a call makes at most depth
\* closest-hit scans and depth shadow scans over the object list, at most
\* depth + 1 invocations in all, and no invocation has a depth below 0.
C12_BoundedRecursion ==
    Traced =>
        /\ ret.scans <= ret.depth
        /\ ret.shadow_scans <= ret.scans
        /\ ret.calls <= ret.depth + 1
        /\ ret.calls \in {ret.scans, ret.scans + 1}
        /\ ret.tests <= 2 * ret.depth * Len(objects)
        /\ ret.lowest = ret.depth - (ret.calls - 1)
        /\ ret.lowest >= 0

\* two facing mirrors of reflectivity 1 traced at depth >= 3: every scan the
\* depth allows is made, and the last invocation is the one of depth 0
C12_Witness ==
    /\ Traced /\ ret.depth >= 3
    /\ Len(objects) = 2
    /\ \A i \in 1..Len(objects) : reflectivity(objects[i]) = ONE
    /\ ret.scans = ret.depth /\ ret.shadow_scans = ret.depth
    /\ ret.calls = ret.depth + 1
    /\ ret.lowest = 0
    /\ ret.tests = 2 * ret.depth * Len(objects)

====
